---- MODULE Spec2Model ----
(***************************************************************************)
(* rancher-upgrader: the blue/green upgrade run of src/upgrader/upgrader.go *)
(* (package upgrader and the main that drives it).  One run is a single    *)
(* thread of control; every HTTP request, every sleep and the external     *)
(* verification command is one step.  The control plane and the network    *)
(* are the environment: each request nondeterministically succeeds or      *)
(* fails, each Service fetch nondeterministically observes any state.      *)
(*                                                                         *)
(* Strings that the code computes on (image reference, build tag) are      *)
(* sequences of one-character strings:                                     *)
(*   "a" and "b" stand for two lower-case letters, "0" for the digit zero, *)
(*   all three of the class [a-z0-9],                                      *)
(*   "B" for a character outside [A-Za-z0-9_] other than the colon and the *)
(*   dollar sign, such as "." or "-",                                      *)
(*   ":" for the colon and "$" for the dollar sign.                        *)
(***************************************************************************)
EXTENDS Integers, Sequences, FiniteSets, TLC

\* ---------------------------------------------------------------- bounds
MaxTimeout == 2
MaxInterval == 1
MaxDelay == 1
MaxContainers == 2
MaxLines == 2
MaxLineLen == 3
PipeCap == 1
MaxToken == 2
MaxImageLen == 3
MaxTagLen == 2
MaxPollTimeout == 4
MaxPollInterval == 2

\* ------------------------------------------------------------ vocabulary
ServiceStates ==
  {"active", "upgrading", "upgraded", "finishing-upgrade", "canceled-upgrade", "removed"}

Phases == {"upgrade", "cancel", "rollback", "finish", "call"}

Images == { <<"a", ":", "a">>, <<"a", ":", "B">>, <<"a">> }

BuildTags == { <<"b">>, <<"a">> }

\* a nil *rancher.Service
NoService ==
  [present |-> FALSE, upgrade |-> FALSE, image |-> <<>>, hasImage |-> FALSE,
   ports |-> "", batchSize |-> 0, intervalMillis |-> 0]

\* the State of a nil Service
NilState == "<nil>"

NoBody ==
  [sent |-> FALSE, image |-> <<>>, ports |-> "", batchSize |-> 0,
   intervalMillis |-> 0, startFirst |-> FALSE]

Min(a, b) == IF a < b THEN a ELSE b

\* ------------------------------------------------------- pure functions
\* the character class [a-z0-9] of the pattern ":[a-z0-9]+$"
IsTagChar(c) == c \in {"a", "b", "0"}

\* positions at which ":[a-z0-9]+$" matches: a colon followed, up to the end
\* of the text, by one or more characters of the class
MatchStarts(s) ==
  { i \in 1..Len(s) : /\ s[i] = ":"
                      /\ i < Len(s)
                      /\ \A j \in (i+1)..Len(s) : IsTagChar(s[j]) }

\* the characters of a name after "$" in a replacement template
IsNameChar(c) == c \in {"a", "b", "0"}

\* length of the longest prefix of t made of name characters
NameLen(t) ==
  CHOOSE n \in 0..Len(t) :
     /\ \A j \in 1..n : IsNameChar(t[j])
     /\ n = Len(t) \/ ~IsNameChar(t[n + 1])

\* Regexp.expand: the replacement template of ReplaceAllString with its
\* "$" references resolved: "$$" is a dollar sign, "$" before a name made of
\* digits zero is the whole match m, "$" before any other name is empty (the
\* pattern has no groups), and a "$" before no name stays as it is
RECURSIVE Expand(_, _)
Expand(t, m) ==
  IF t = <<>> THEN <<>>
  ELSE IF Head(t) # "$" THEN <<Head(t)>> \o Expand(Tail(t), m)
  ELSE LET r == Tail(t)
           n == NameLen(r)
       IN  IF r # <<>> /\ Head(r) = "$" THEN <<"$">> \o Expand(Tail(r), m)
           ELSE IF n = 0 THEN <<"$">> \o Expand(r, m)
           ELSE (IF \A j \in 1..n : r[j] = "0" THEN m ELSE <<>>)
                   \o Expand(SubSeq(r, n + 1, Len(r)), m)

\* regexp.MustCompile(":[a-z0-9]+$").ReplaceAllString(s, ":"+tag)
RewriteImage(s, tag) ==
  IF MatchStarts(s) = {} THEN s
  ELSE LET i == CHOOSE k \in MatchStarts(s) : \A m \in MatchStarts(s) : k <= m
       IN  SubSeq(s, 1, i - 1) \o Expand(<<":">> \o tag, SubSeq(s, i, Len(s)))

\* a Cancel that waits for the canceled state only
DesiredStates_CancelNarrow(p) ==
  CASE p = "upgrade"  -> {"upgraded"}
    [] p = "cancel"   -> {"canceled-upgrade"}
    [] p = "rollback" -> {"active"}
    [] p = "finish"   -> {"active"}

\* the desired-state sets handed to WaitFor by its four callers
DesiredStates(p) ==
  CASE p = "upgrade"  -> {"upgraded"}
    [] p = "cancel"   -> {"upgraded", "canceled-upgrade", "active"}
    [] p = "rollback" -> {"active"}
    [] p = "finish"   -> {"active"}

\* a runner that only reports a command that could not be started
CmdError_StartOnly(started, status) == ~started

\* err != nil of StreamingExternalCmd: cmd.Start failed, or cmd.Wait
\* reported a non-zero exit status
CmdError(started, status) == ~started \/ status # 0

\* a match test that only ever recognises the first desired state
StateMatches_FirstOnly(st, D) == st \in D /\ st = "upgraded"

\* if _, ok := desiredStates[service.State]; ok
StateMatches(st, D) == st \in D

\* a timeout test that never fires
WaitExpired_Never(el, timeout) == FALSE

\* a timeout test that also fires when the elapsed time equals the timeout
WaitExpired_NonStrict(el, timeout) == el >= timeout

\* if time.Since(start) > waitTimeout
WaitExpired(el, timeout) == el > timeout

\* a precondition check that never fires
NotUpgradeable_Never(svc) == FALSE

\* if svcConfig.Actions.Upgrade == "" { log.Fatal(...) }
NotUpgradeable(svc) == ~svc.upgrade

\* a main that runs the command whether one is configured or not
CmdConfigured_Always(c) == TRUE

\* if cfg.Cmd != ""
CmdConfigured(c) == c.Cmd

\* a finish step that ignores the flag, one way or the other
FinishEnabled_Never(c) == FALSE

FinishEnabled_Always(c) == TRUE

\* if cfg.RancherFinishUpgrade
FinishEnabled(c) == c.Finish

\* an UpgradeRequest with the strategy values written into the program
UpgradePayload_FixedStrategy(svc, newImage, c) ==
  [sent |-> TRUE, image |-> svc.image, ports |-> svc.ports,
   batchSize |-> 1, intervalMillis |-> 1, startFirst |-> c.StartFirst]

\* the payload main hands to Upgrade: LaunchConfig is svcConfig.LaunchConfig
\* of main's own fetch; ImageUUID(imageUUID) is applied inside Upgrade to the
\* Service that Upgrade fetches itself, which is not the marshalled payload
UpgradePayload(svc, newImage, c) ==
  [sent |-> TRUE, image |-> svc.image, ports |-> svc.ports,
   batchSize |-> svc.batchSize, intervalMillis |-> svc.intervalMillis,
   startFirst |-> c.StartFirst]

\* a failed fetch that falls through to the sleep and the timeout test
FetchErrorTarget_Sleep == "wf_sleep"

\* where the failed-fetch branch of the WaitFor loop goes
FetchErrorTarget == "wf_neterr"

\* a failed verification that is only logged
VerifyFailureTarget_Finish == "finish"

\* a failed verification that cancels instead of rolling back
VerifyFailureTarget_Cancel == "cancel_post"

\* main: a failed command leads to ru.Rollback()
VerifyFailureTarget == "rollback_post"

\* an upgrade POSTed to a URL put together from the service URL
UpgradeTarget_Built == "built"

\* Upgrade: http.NewRequest("POST", svcConfig.Actions.Upgrade, ...): the URL
\* is the action link of the Service fetched inside Upgrade
UpgradeTarget == "link"

\* startContainers: http.NewRequest("POST", container.Actions.Start, nil)
StartTarget == "link"

\* a sweep that POSTs to every Container, start link or not
Startable_Always(list, i) == TRUE

\* startContainers: the test container.Actions.Start == "" of one Container
Startable(list, i) == list[i]

VARIABLES
  cfg,        \* rancher.Config: Timeout, Interval, Cmd, Finish, StartFirst, BuildTag
  remote,     \* the Service document held by the control plane
  pc,         \* position of the single thread of control
  exitCode,   \* process exit status, meaningful when pc = "done"
  svcConfig,  \* main: the Service fetched at the start
  imageUUID,  \* main: the rewritten image reference
  upSvc,      \* Upgrade: the Service fetched inside Upgrade
  body,       \* the UpgradeRequest body that was POSTed
  posts,      \* the action POSTs issued so far, in order
  phase,      \* which WaitFor call is running
  desired,    \* WaitFor: desiredStates
  elapsed,    \* WaitFor: time.Since(start), saturated above the timeout
  fetchOk,    \* WaitFor: whether the latest GET of the loop succeeded
  service,    \* WaitFor: State of the Service decoded by the latest successful GET
  waitRes,    \* per WaitFor call: "none", "ok" or "timeout"
  waitSvc,    \* per WaitFor call: State of the Service it returned
  verify,     \* verification command: "none", "pass", "fail"
  via,        \* how Rollback was entered: "none", "cancel", "verify"
  instances,  \* startContainers: the decoded instances list
  idx,        \* startContainers: loop index
  sweep,      \* startContainers: "none", "geterr", "running", "ok", "starterr"
  cfgGets,    \* number of GetServiceConfig calls made
  callerPc,   \* StreamingExternalCmd: "idle", "pipe", "start", "wait", "returned"
  childPc,    \* the external process: "none", "running", "exited"
  readerPc,   \* the reader goroutine: "none", "scan", "stopped"
  script,     \* what the process has still to write to its standard output
  pipe,       \* the kernel buffer of the stdout pipe
  pipeClosed, \* whether the parent's read end of the pipe is closed
  scanBuf,    \* bufio.Scanner: length of the unfinished line it has buffered
  linesWritten, \* lines the process has written
  linesPrinted, \* lines the reader goroutine has printed
  exitStatus, \* exit status of the process
  runResult,  \* what StreamingExternalCmd returned: "none", "nil", "err"
  polls       \* a direct WaitFor call: its GETs and sleeps so far

vars == <<cfg, remote, pc, exitCode, svcConfig, imageUUID, upSvc, body, posts,
          phase, desired, elapsed, fetchOk, service, waitRes, waitSvc, verify,
          via, instances, idx, sweep, cfgGets, callerPc, childPc, readerPc,
          script, pipe, pipeClosed, scanBuf, linesWritten, linesPrinted,
          exitStatus, runResult, polls>>

runVars == <<callerPc, childPc, readerPc, script, pipe, pipeClosed, scanBuf,
             linesWritten, linesPrinted, exitStatus, runResult>>

progVars == <<cfg, remote, pc, exitCode, svcConfig, imageUUID, upSvc, body,
              posts, phase, desired, elapsed, fetchOk, service, waitRes,
              waitSvc, verify, via, instances, idx, sweep, cfgGets, polls>>

wfVars == <<phase, desired, elapsed, fetchOk, service>>

mainVars == <<svcConfig, imageUUID, upSvc, body>>

Configs ==
  [Timeout : 0..MaxTimeout, Interval : 0..MaxInterval, Cmd : BOOLEAN,
   Finish : BOOLEAN, StartFirst : BOOLEAN, BuildTag : BuildTags]

\* the Service documents of a whole run: one value of every field that the
\* run only copies
Remotes ==
  { r \in [image : Images \cup {<<>>}, hasImage : BOOLEAN, ports : {"p1"},
            batchSize : {1}, intervalMillis : {1}] :
       r.hasImage = (r.image # <<>>) }


\* []Container of the instances document: TRUE where Actions.Start is set
InstanceLists ==
  UNION { [1..n -> BOOLEAN] : n \in 0..MaxContainers }

\* a WaitFor call that has made no GET yet; ideal: every GET so far was
\* answered at once and without error
NoPolls == [fetches |-> 0, sleeps |-> 0, ideal |-> TRUE]

NoVerify ==
  [ran |-> FALSE, started |-> FALSE, status |-> 0, err |-> FALSE, runs |-> 0]

\* StreamingExternalCmd is not being called
RunnerIdle ==
  /\ callerPc = "idle"
  /\ childPc = "none"
  /\ readerPc = "none"
  /\ script = <<>>
  /\ pipe = <<>>
  /\ pipeClosed = FALSE
  /\ scanBuf = 0
  /\ linesWritten = 0
  /\ linesPrinted = 0
  /\ exitStatus = 0
  /\ runResult = "none"

Init ==
  /\ cfg \in Configs
  /\ remote \in Remotes
  /\ pc = "main_get"
  /\ exitCode = 0
  /\ svcConfig = NoService
  /\ imageUUID = <<>>
  /\ upSvc = NoService
  /\ body = NoBody
  /\ posts = <<>>
  /\ phase = "none"
  /\ desired = {}
  /\ elapsed = 0
  /\ fetchOk = FALSE
  /\ service = NilState
  /\ waitRes = [p \in Phases |-> "none"]
  /\ waitSvc = [p \in Phases |-> NilState]
  /\ verify = NoVerify
  /\ via = "none"
  /\ instances = <<>>
  /\ idx = 0
  /\ sweep = "none"
  /\ cfgGets = 0
  /\ polls = NoPolls
  /\ RunnerIdle

\* ------------------------------------------------------------- helpers
\* ok: the request went through and its response was usable by the caller
Post(act, ok, url, i) == [act |-> act, ok |-> ok, url |-> url, idx |-> i]

\* the Service decoded from a successful GET of the service URL
Fetched(up) ==
  [present |-> TRUE, upgrade |-> up, image |-> remote.image,
   hasImage |-> remote.hasImage, ports |-> remote.ports,
   batchSize |-> remote.batchSize, intervalMillis |-> remote.intervalMillis]

\* a log.Fatal that leaves the exit status at 0
Exit_FatalIsZero(code) ==
  /\ pc' = "done"
  /\ exitCode' = IF code = 1 THEN 0 ELSE code

\* log.Fatal, a panic, or main returning
Exit(code) ==
  /\ pc' = "done"
  /\ exitCode' = code

\* a WaitFor that measures time from the start of the run's first wait
EnterWaitFor_KeepsClock(p) ==
  /\ pc' = "wf_fetch"
  /\ phase' = p
  /\ desired' = DesiredStates(p)
  /\ elapsed' = elapsed
  /\ fetchOk' = FALSE
  /\ service' = NilState

\* start := time.Now() and the loop entry of WaitFor
EnterWaitFor(p) ==
  /\ pc' = "wf_fetch"
  /\ phase' = p
  /\ desired' = DesiredStates(p)
  /\ elapsed' = 0
  /\ fetchOk' = FALSE
  /\ service' = NilState

\* a main that goes on to the verification after a Cancel whose wait failed
AfterWaitFor_CancelFallsThrough(p, timedOut) ==
  CASE p = "upgrade"  -> IF timedOut THEN "cancel_post"
                         ELSE IF CmdConfigured(cfg) THEN "verify" ELSE "finish"
    [] p = "cancel"   -> IF timedOut THEN "verify" ELSE "rollback_post"
    [] p = "rollback" -> IF timedOut THEN "exit1" ELSE "get_instances"
    [] p = "finish"   -> IF timedOut THEN "exit1" ELSE "exit0"
    [] p = "call"     -> "returned"

\* a main that cancels the upgrade when the wait of FinishUpgrade failed
AfterWaitFor_FinishCancels(p, timedOut) ==
  CASE p = "upgrade"  -> IF timedOut THEN "cancel_post"
                         ELSE IF CmdConfigured(cfg) THEN "verify" ELSE "finish"
    [] p = "cancel"   -> IF timedOut THEN "exit1" ELSE "rollback_post"
    [] p = "rollback" -> IF timedOut THEN "exit1" ELSE "get_instances"
    [] p = "finish"   -> IF timedOut THEN "cancel_post" ELSE "exit0"
    [] p = "call"     -> "returned"

\* a FinishUpgrade that drops the error of its wait
AfterWaitFor_FinishIgnoresTimeout(p, timedOut) ==
  CASE p = "upgrade"  -> IF timedOut THEN "cancel_post"
                         ELSE IF CmdConfigured(cfg) THEN "verify" ELSE "finish"
    [] p = "cancel"   -> IF timedOut THEN "exit1" ELSE "rollback_post"
    [] p = "rollback" -> IF timedOut THEN "exit1" ELSE "get_instances"
    [] p = "finish"   -> "exit0"
    [] p = "call"     -> "returned"

\* a Rollback that only logs the error of its wait and sweeps anyway
AfterWaitFor_SweepAnyway(p, timedOut) ==
  CASE p = "upgrade"  -> IF timedOut THEN "cancel_post"
                         ELSE IF CmdConfigured(cfg) THEN "verify" ELSE "finish"
    [] p = "cancel"   -> IF timedOut THEN "exit1" ELSE "rollback_post"
    [] p = "rollback" -> "get_instances"
    [] p = "finish"   -> IF timedOut THEN "exit1" ELSE "exit0"
    [] p = "call"     -> "returned"

\* a Rollback that is tried again when its wait failed
AfterWaitFor_RetryRollback(p, timedOut) ==
  CASE p = "upgrade"  -> IF timedOut THEN "cancel_post"
                         ELSE IF CmdConfigured(cfg) THEN "verify" ELSE "finish"
    [] p = "cancel"   -> IF timedOut THEN "exit1" ELSE "rollback_post"
    [] p = "rollback" -> IF timedOut THEN "rollback_post" ELSE "get_instances"
    [] p = "finish"   -> IF timedOut THEN "exit1" ELSE "exit0"
    [] p = "call"     -> "returned"

\* a Cancel that only logs the error of its wait and rolls back anyway
AfterWaitFor_RollbackAnyway(p, timedOut) ==
  CASE p = "upgrade"  -> IF timedOut THEN "cancel_post"
                         ELSE IF CmdConfigured(cfg) THEN "verify" ELSE "finish"
    [] p = "cancel"   -> "rollback_post"
    [] p = "rollback" -> IF timedOut THEN "exit1" ELSE "get_instances"
    [] p = "finish"   -> IF timedOut THEN "exit1" ELSE "exit0"
    [] p = "call"     -> "returned"

\* what the caller of WaitFor does with (svc, err)
AfterWaitFor(p, timedOut) ==
  CASE p = "upgrade"  -> IF timedOut THEN "cancel_post"
                         ELSE IF CmdConfigured(cfg) THEN "verify" ELSE "finish"
    [] p = "cancel"   -> IF timedOut THEN "exit1" ELSE "rollback_post"
    [] p = "rollback" -> IF timedOut THEN "exit1" ELSE "get_instances"
    [] p = "finish"   -> IF timedOut THEN "exit1" ELSE "exit0"
    [] p = "call"     -> "returned"

ReturnFromWaitFor(p, st, timedOut) ==
  /\ waitRes' = [waitRes EXCEPT ![p] = IF timedOut THEN "timeout" ELSE "ok"]
  /\ waitSvc' = [waitSvc EXCEPT ![p] = st]
  /\ LET nxt == AfterWaitFor(p, timedOut)
     IN  CASE nxt = "exit1" -> Exit(1)
           [] nxt = "exit0" -> Exit(0)
           [] OTHER -> pc' = nxt /\ exitCode' = exitCode

\* --------------------------------------------------------------- actions
\* a main that goes on to Upgrade when its fetch failed
MainGetServiceConfig_IgnoresError ==
  /\ pc = "main_get"
  /\ cfgGets' = cfgGets + 1
  /\ \E ok \in BOOLEAN, up \in BOOLEAN :
       IF ~ok
       THEN /\ pc' = "upgrade_get"
            /\ exitCode' = exitCode
            /\ UNCHANGED <<svcConfig, imageUUID>>
       ELSE LET svc == Fetched(up)
            IN  /\ svcConfig' = svc
                /\ IF NotUpgradeable(svc)
                   THEN Exit(1) /\ UNCHANGED imageUUID
                   ELSE IF ~svc.hasImage
                   THEN Exit(2) /\ UNCHANGED imageUUID
                   ELSE /\ imageUUID' = RewriteImage(svc.image, cfg.BuildTag)
                        /\ pc' = "upgrade_get"
                        /\ exitCode' = exitCode
  /\ UNCHANGED <<polls, runVars, cfg, remote, upSvc, body, posts, wfVars, waitRes, waitSvc,
                 verify, via, instances, idx, sweep>>

\* main: svcConfig, err := ru.GetServiceConfig() and the precondition checks
MainGetServiceConfig ==
  /\ pc = "main_get"
  /\ cfgGets' = cfgGets + 1
  /\ \E ok \in BOOLEAN, up \in BOOLEAN :
       IF ~ok
       THEN \* svcConfig is nil: svcConfig.Actions panics
            /\ Exit(2)
            /\ UNCHANGED <<svcConfig, imageUUID>>
       ELSE LET svc == Fetched(up)
            IN  /\ svcConfig' = svc
                /\ IF NotUpgradeable(svc)
                   THEN Exit(1) /\ UNCHANGED imageUUID
                   ELSE IF ~svc.hasImage
                   THEN \* LaunchConfig["imageUuid"].(string) panics
                        Exit(2) /\ UNCHANGED imageUUID
                   ELSE /\ imageUUID' = RewriteImage(svc.image, cfg.BuildTag)
                        /\ pc' = "upgrade_get"
                        /\ exitCode' = exitCode
  /\ UNCHANGED <<polls, runVars, cfg, remote, upSvc, body, posts, wfVars, waitRes, waitSvc,
                 verify, via, instances, idx, sweep>>

\* Upgrade: svcConfig, err := r.GetServiceConfig(); the options are applied
\* to this Service
UpgradeGetServiceConfig ==
  /\ pc = "upgrade_get"
  /\ cfgGets' = cfgGets + 1
  /\ \E ok \in BOOLEAN, up \in BOOLEAN :
       IF ~ok
       THEN Exit(1) /\ UNCHANGED upSvc
       ELSE /\ upSvc' = [Fetched(up) EXCEPT !.image = imageUUID, !.hasImage = TRUE]
            /\ pc' = "upgrade_post"
            /\ exitCode' = exitCode
  /\ UNCHANGED <<polls, runVars, cfg, remote, svcConfig, imageUUID, body, posts, wfVars,
                 waitRes, waitSvc, verify, via, instances, idx, sweep>>

\* an Upgrade that POSTs to the upgrade link of the Service main fetched
UpgradePost_UsesMainSnapshot ==
  /\ pc = "upgrade_post"
  /\ IF ~svcConfig.upgrade
     THEN /\ Exit(1)
          /\ UNCHANGED <<body, posts, wfVars>>
     ELSE \E ok \in BOOLEAN :
            /\ posts' = Append(posts, Post("upgrade", ok, UpgradeTarget, 0))
            /\ body' = UpgradePayload(svcConfig, imageUUID, cfg)
            /\ IF ok
               THEN EnterWaitFor("upgrade") /\ exitCode' = exitCode
               ELSE Exit(1) /\ UNCHANGED wfVars
  /\ UNCHANGED <<polls, runVars, cfg, remote, svcConfig, imageUUID, upSvc, waitRes, waitSvc,
                 verify, via, instances, idx, sweep, cfgGets>>

\* a main that starts to poll although Upgrade returned an error
UpgradePost_IgnoresError ==
  /\ pc = "upgrade_post"
  /\ IF ~upSvc.upgrade
     THEN /\ Exit(1)
          /\ UNCHANGED <<body, posts, wfVars>>
     ELSE \E ok \in BOOLEAN :
            /\ posts' = Append(posts, Post("upgrade", ok, UpgradeTarget, 0))
            /\ body' = UpgradePayload(svcConfig, imageUUID, cfg)
            /\ EnterWaitFor("upgrade") /\ exitCode' = exitCode
  /\ UNCHANGED <<polls, runVars, cfg, remote, svcConfig, imageUUID, upSvc, waitRes, waitSvc,
                 verify, via, instances, idx, sweep, cfgGets>>

\* Upgrade: json.Marshal(payload) and the POST to svcConfig.Actions.Upgrade
UpgradePost ==
  /\ pc = "upgrade_post"
  /\ IF ~upSvc.upgrade
     THEN \* the URL is "": client.Do fails before anything is sent
          /\ Exit(1)
          /\ UNCHANGED <<body, posts, wfVars>>
     ELSE \E ok \in BOOLEAN :
            /\ posts' = Append(posts, Post("upgrade", ok, UpgradeTarget, 0))
            /\ body' = UpgradePayload(svcConfig, imageUUID, cfg)
            /\ IF ok
               THEN EnterWaitFor("upgrade") /\ exitCode' = exitCode
               ELSE Exit(1) /\ UNCHANGED wfVars
  /\ UNCHANGED <<polls, runVars, cfg, remote, svcConfig, imageUUID, upSvc, waitRes, waitSvc,
                 verify, via, instances, idx, sweep, cfgGets>>

\* one more GET of a direct WaitFor call, answered after d seconds
CountFetch(ok, d) ==
  polls' = IF phase = "call"
           THEN [polls EXCEPT !.fetches = Min(@ + 1, cfg.Timeout + 2),
                              !.ideal = @ /\ ok /\ d = 0]
           ELSE polls

\* one more sleep of a direct WaitFor call
CountSleep ==
  polls' = IF phase = "call"
           THEN [polls EXCEPT !.sleeps = Min(@ + 1, cfg.Timeout + 2)]
           ELSE polls

\* a WaitFor that tests the timeout before it looks at the fetched state
WaitForFetch_TimeoutFirst ==
  /\ pc = "wf_fetch"
  /\ \E d \in 0..MaxDelay, ok \in BOOLEAN, st \in ServiceStates :
       /\ elapsed' = Min(elapsed + d, cfg.Timeout + 1)
       /\ CountFetch(ok, d)
       /\ IF WaitExpired(elapsed', cfg.Timeout)
          THEN /\ fetchOk' = ok
               /\ service' = IF ok THEN st ELSE service
               /\ ReturnFromWaitFor(phase, service', TRUE)
          ELSE IF ~ok
          THEN /\ fetchOk' = FALSE
               /\ pc' = FetchErrorTarget
               /\ UNCHANGED <<service, waitRes, waitSvc, exitCode>>
          ELSE /\ fetchOk' = TRUE
               /\ service' = st
               /\ IF StateMatches(st, desired)
                  THEN ReturnFromWaitFor(phase, st, FALSE)
                  ELSE /\ pc' = "wf_sleep"
                       /\ UNCHANGED <<waitRes, waitSvc, exitCode>>
  /\ UNCHANGED <<runVars, cfg, remote, mainVars, posts, phase, desired, verify, via,
                 instances, idx, sweep, cfgGets>>

\* WaitFor: the GET at the head of the loop and the match test
WaitForFetch ==
  /\ pc = "wf_fetch"
  /\ \E d \in 0..MaxDelay, ok \in BOOLEAN, st \in ServiceStates :
       /\ elapsed' = Min(elapsed + d, cfg.Timeout + 1)
       /\ CountFetch(ok, d)
       /\ IF ~ok
          THEN /\ fetchOk' = FALSE
               /\ pc' = FetchErrorTarget
               /\ UNCHANGED <<service, waitRes, waitSvc, exitCode>>
          ELSE /\ fetchOk' = TRUE
               /\ service' = st
               /\ IF StateMatches(st, desired)
                  THEN ReturnFromWaitFor(phase, st, FALSE)
                  ELSE /\ pc' = "wf_sleep"
                       /\ UNCHANGED <<waitRes, waitSvc, exitCode>>
  /\ UNCHANGED <<runVars, cfg, remote, mainVars, posts, phase, desired, verify, via,
                 instances, idx, sweep, cfgGets>>

\* WaitFor: log.Println(err.Error()); continue
WaitForRetry ==
  /\ pc = "wf_neterr"
  /\ pc' = "wf_fetch"
  /\ UNCHANGED <<polls, runVars, cfg, remote, exitCode, mainVars, posts, wfVars, waitRes,
                 waitSvc, verify, via, instances, idx, sweep, cfgGets>>

\* a WaitFor that returns a nil Service with its timeout error
WaitForSleep_ReturnsNil ==
  /\ pc = "wf_sleep"
  /\ CountSleep
  /\ LET el == Min(elapsed + cfg.Interval, cfg.Timeout + 1)
     IN  /\ elapsed' = el
         /\ IF WaitExpired(el, cfg.Timeout)
            THEN ReturnFromWaitFor(phase, NilState, TRUE)
            ELSE /\ pc' = "wf_fetch"
                 /\ UNCHANGED <<waitRes, waitSvc, exitCode>>
  /\ UNCHANGED <<runVars, cfg, remote, mainVars, posts, phase, desired, fetchOk, service,
                 verify, via, instances, idx, sweep, cfgGets>>

\* WaitFor: time.Sleep(waitInterval) and the timeout test
WaitForSleep ==
  /\ pc = "wf_sleep"
  /\ CountSleep
  /\ LET el == Min(elapsed + cfg.Interval, cfg.Timeout + 1)
     IN  /\ elapsed' = el
         /\ IF WaitExpired(el, cfg.Timeout)
            THEN ReturnFromWaitFor(phase, service, TRUE)
            ELSE /\ pc' = "wf_fetch"
                 /\ UNCHANGED <<waitRes, waitSvc, exitCode>>
  /\ UNCHANGED <<runVars, cfg, remote, mainVars, posts, phase, desired, fetchOk, service,
                 verify, via, instances, idx, sweep, cfgGets>>

\* main: upgrader.StreamingExternalCmd(cmdParts[0], cmdParts[1:]...)
RunVerification ==
  /\ pc = "verify"
  /\ \E started \in BOOLEAN, status \in 0..1 :
       LET err == CmdError(started, status)
       IN  /\ verify' = [ran |-> TRUE, started |-> started,
                         status |-> IF started THEN status ELSE 0, err |-> err,
                         runs |-> verify.runs + 1]
           /\ pc' = IF err THEN VerifyFailureTarget ELSE "finish"
           /\ via' = IF err THEN "verify" ELSE via
  /\ UNCHANGED <<polls, runVars, cfg, remote, exitCode, mainVars, posts, wfVars, waitRes,
                 waitSvc, instances, idx, sweep, cfgGets>>

\* Cancel: the POST to svcURL + "?action=cancelupgrade"
CancelPost ==
  /\ pc = "cancel_post"
  /\ \E ok \in BOOLEAN :
       /\ posts' = Append(posts, Post("cancel", ok, "built", 0))
       /\ IF ok
          THEN EnterWaitFor("cancel") /\ exitCode' = exitCode
          ELSE Exit(1) /\ UNCHANGED wfVars
  /\ via' = "cancel"
  /\ UNCHANGED <<polls, runVars, cfg, remote, mainVars, waitRes, waitSvc, verify, instances,
                 idx, sweep, cfgGets>>

\* a Rollback that waits for active although its POST failed
RollbackPost_IgnoresError ==
  /\ pc = "rollback_post"
  /\ \E ok \in BOOLEAN :
       /\ posts' = Append(posts, Post("rollback", ok, "built", 0))
       /\ EnterWaitFor("rollback") /\ exitCode' = exitCode
  /\ UNCHANGED <<polls, runVars, cfg, remote, mainVars, waitRes, waitSvc, verify, via,
                 instances, idx, sweep, cfgGets>>

\* Rollback: the POST to svcURL + "?action=rollback"
RollbackPost ==
  /\ pc = "rollback_post"
  /\ \E ok \in BOOLEAN :
       /\ posts' = Append(posts, Post("rollback", ok, "built", 0))
       /\ IF ok
          THEN EnterWaitFor("rollback") /\ exitCode' = exitCode
          ELSE Exit(1) /\ UNCHANGED wfVars
  /\ UNCHANGED <<polls, runVars, cfg, remote, mainVars, waitRes, waitSvc, verify, via,
                 instances, idx, sweep, cfgGets>>

\* startContainers: the GET of svcConfig.Links.Instances and its decoding
GetInstances ==
  /\ pc = "get_instances"
  /\ \E ok \in BOOLEAN, list \in InstanceLists :
       IF ~ok
       THEN Exit(1) /\ sweep' = "geterr" /\ UNCHANGED <<instances, idx>>
       ELSE /\ instances' = list
            /\ idx' = 1
            /\ IF Len(list) = 0
               THEN \* Rollback returns nil, main ends in log.Fatal
                    Exit(1) /\ sweep' = "ok"
               ELSE /\ pc' = "start_loop"
                    /\ exitCode' = exitCode
                    /\ sweep' = "running"
  /\ UNCHANGED <<polls, runVars, cfg, remote, mainVars, posts, wfVars, waitRes, waitSvc,
                 verify, via, cfgGets>>

\* startContainers: one iteration of the loop over instances.Containers
StartContainer ==
  /\ pc = "start_loop"
  /\ idx <= Len(instances)
  /\ idx' = idx + 1
  /\ IF ~Startable(instances, idx)
     THEN \* Actions.Start == "": logged, continue
          /\ posts' = posts
          /\ IF idx = Len(instances)
             THEN Exit(1) /\ sweep' = "ok"
             ELSE UNCHANGED <<pc, exitCode, sweep>>
     ELSE \E ok \in BOOLEAN :
            /\ posts' = Append(posts, Post("start", ok, StartTarget, idx))
            /\ IF ~ok
               THEN Exit(1) /\ sweep' = "starterr"
               ELSE IF idx = Len(instances)
               THEN Exit(1) /\ sweep' = "ok"
               ELSE UNCHANGED <<pc, exitCode, sweep>>
  /\ UNCHANGED <<polls, runVars, cfg, remote, mainVars, wfVars, waitRes, waitSvc, verify, via,
                 instances, cfgGets>>

\* main: if cfg.RancherFinishUpgrade { ru.FinishUpgrade() }: the POST to
\* svcURL + "?action=finishupgrade" and the decoding of its response
FinishUpgrade ==
  /\ pc = "finish"
  /\ IF ~FinishEnabled(cfg)
     THEN /\ Exit(0)
          /\ UNCHANGED <<posts, wfVars>>
     ELSE \E sent \in BOOLEAN, decoded \in BOOLEAN :
            /\ posts' = Append(posts, Post("finish", sent /\ decoded, "built", 0))
            /\ IF sent /\ decoded
               THEN EnterWaitFor("finish") /\ exitCode' = exitCode
               ELSE Exit(1) /\ UNCHANGED wfVars
  /\ UNCHANGED <<polls, runVars, cfg, remote, mainVars, waitRes, waitSvc, verify, via,
                 instances, idx, sweep, cfgGets>>

Next ==
  \/ MainGetServiceConfig
  \/ UpgradeGetServiceConfig
  \/ UpgradePost
  \/ WaitForFetch
  \/ WaitForRetry
  \/ WaitForSleep
  \/ RunVerification
  \/ CancelPost
  \/ RollbackPost
  \/ GetInstances
  \/ StartContainer
  \/ FinishUpgrade

Spec == Init /\ [][Next]_vars

\* the single thread keeps running: a step that can be taken is taken
FairSpec == Spec /\ WF_vars(Next)

\* the runs of Spec, one for all the values of the build tag, the image tag
\* and the start-first flag, which no branch of the run reads
TermInit ==
  /\ Init
  /\ cfg.BuildTag = <<"a">>
  /\ ~cfg.StartFirst
  /\ remote.image \in {<<"a", ":", "a">>, <<>>}

\* the single thread keeps running, a GET of the WaitFor loop that is made
\* again and again eventually succeeds, and while the loop runs the clock
\* read by time.Since eventually moves on
TermSpec ==
  /\ TermInit
  /\ [][Next]_vars
  /\ WF_vars(Next)
  /\ SF_vars(WaitForFetch /\ fetchOk')
  /\ SF_vars(WaitForFetch /\ elapsed' > elapsed)

\* ------------------------------------------- WaitFor called on its own
\* A direct call of the interface method WaitFor(desiredStates ...string)
\* with an arbitrary set of desired states; the call returns to "returned".
WaitConfigs ==
  [Timeout : 0..MaxTimeout, Interval : 0..MaxInterval, Cmd : {FALSE},
   Finish : {FALSE}, StartFirst : {FALSE}, BuildTag : {<<"a">>}]

WaitInit ==
  /\ cfg \in WaitConfigs
  /\ remote = [image |-> <<"a">>, hasImage |-> TRUE, ports |-> "p1",
               batchSize |-> 1, intervalMillis |-> 1]
  /\ pc = "wf_fetch"
  /\ exitCode = 0
  /\ svcConfig = NoService
  /\ imageUUID = <<>>
  /\ upSvc = NoService
  /\ body = NoBody
  /\ posts = <<>>
  /\ phase = "call"
  /\ desired \in SUBSET ServiceStates
  /\ elapsed = 0
  /\ fetchOk = FALSE
  /\ service = NilState
  /\ waitRes = [p \in Phases |-> "none"]
  /\ waitSvc = [p \in Phases |-> NilState]
  /\ verify = NoVerify
  /\ via = "none"
  /\ instances = <<>>
  /\ idx = 0
  /\ sweep = "none"
  /\ cfgGets = 0
  /\ polls = NoPolls
  /\ RunnerIdle

WaitNext ==
  \/ WaitForFetch
  \/ WaitForRetry
  \/ WaitForSleep

WaitSpec == WaitInit /\ [][WaitNext]_vars

\* the single thread keeps running: a step that can be taken is taken
FairWaitSpec == WaitSpec /\ WF_vars(WaitNext)

\* ------------------------------------------- the polls of one WaitFor
\* A direct call of WaitFor with one of the desired-state sets the program
\* passes, over a wider range of timeouts and check intervals.
PollConfigs ==
  [Timeout : 0..MaxPollTimeout, Interval : 0..MaxPollInterval, Cmd : {FALSE},
   Finish : {FALSE}, StartFirst : {FALSE}, BuildTag : {<<"a">>}]

PollInit ==
  /\ cfg \in PollConfigs
  /\ remote = [image |-> <<"a">>, hasImage |-> TRUE, ports |-> "p1",
               batchSize |-> 1, intervalMillis |-> 1]
  /\ pc = "wf_fetch"
  /\ exitCode = 0
  /\ svcConfig = NoService
  /\ imageUUID = <<>>
  /\ upSvc = NoService
  /\ body = NoBody
  /\ posts = <<>>
  /\ phase = "call"
  /\ desired \in { DesiredStates(p) : p \in {"upgrade", "cancel", "rollback"} }
  /\ elapsed = 0
  /\ fetchOk = FALSE
  /\ service = NilState
  /\ waitRes = [p \in Phases |-> "none"]
  /\ waitSvc = [p \in Phases |-> NilState]
  /\ verify = NoVerify
  /\ via = "none"
  /\ instances = <<>>
  /\ idx = 0
  /\ sweep = "none"
  /\ cfgGets = 0
  /\ polls = NoPolls
  /\ RunnerIdle

PollSpec == PollInit /\ [][WaitNext]_vars

\* ------------------------------------------- the upgrade request alone
\* The run up to the POST of the UpgradeRequest, over Service documents
\* whose launch configuration and upgrade strategy vary, and which the
\* control plane may replace between main's fetch and the one of Upgrade.
LaunchPorts == {"p1", "p2"}

BatchSizes == {1, 2}

IntervalMillisValues == {1, 2}

UpgradeRemotes ==
  { r \in [image : Images \cup {<<>>}, hasImage : BOOLEAN, ports : LaunchPorts,
            batchSize : BatchSizes, intervalMillis : IntervalMillisValues] :
       r.hasImage = (r.image # <<>>) }

UpgradeConfigs ==
  [Timeout : {0}, Interval : {0}, Cmd : {FALSE}, Finish : {FALSE},
   StartFirst : BOOLEAN, BuildTag : BuildTags]

UpgradeInit ==
  /\ cfg \in UpgradeConfigs
  /\ remote \in UpgradeRemotes
  /\ pc = "main_get"
  /\ exitCode = 0
  /\ svcConfig = NoService
  /\ imageUUID = <<>>
  /\ upSvc = NoService
  /\ body = NoBody
  /\ posts = <<>>
  /\ phase = "none"
  /\ desired = {}
  /\ elapsed = 0
  /\ fetchOk = FALSE
  /\ service = NilState
  /\ waitRes = [p \in Phases |-> "none"]
  /\ waitSvc = [p \in Phases |-> NilState]
  /\ verify = NoVerify
  /\ via = "none"
  /\ instances = <<>>
  /\ idx = 0
  /\ sweep = "none"
  /\ cfgGets = 0
  /\ polls = NoPolls
  /\ RunnerIdle

\* the control plane replaces the Service document between the two fetches
ControlPlaneUpdate ==
  /\ pc = "upgrade_get"
  /\ cfgGets = 1
  /\ remote' \in UpgradeRemotes \ {remote}
  /\ UNCHANGED <<polls, runVars, cfg, pc, exitCode, mainVars, posts, wfVars, waitRes, waitSvc,
                 verify, via, instances, idx, sweep, cfgGets>>

UpgradeNext ==
  \/ MainGetServiceConfig
  \/ ControlPlaneUpdate
  \/ UpgradeGetServiceConfig
  \/ UpgradePost

UpgradeSpec == UpgradeInit /\ [][UpgradeNext]_vars

\* ------------------------------------------------ the rewrite alone
\* main up to the rewrite of the image reference, over every image
\* reference of up to MaxImageLen characters and every build tag of up to
\* MaxTagLen characters.
RewriteChars == {"a", "0", "B", ":", "$"}

StringsUpTo(n) == UNION { [1..k -> RewriteChars] : k \in 0..n }

RewriteConfigs ==
  [Timeout : {0}, Interval : {0}, Cmd : {FALSE}, Finish : {FALSE},
   StartFirst : {FALSE}, BuildTag : StringsUpTo(MaxTagLen)]

RewriteRemotes ==
  [image : StringsUpTo(MaxImageLen) \ {<<>>}, hasImage : {TRUE}, ports : {"p1"},
   batchSize : {1}, intervalMillis : {1}]

RewriteInit ==
  /\ cfg \in RewriteConfigs
  /\ remote \in RewriteRemotes
  /\ pc = "main_get"
  /\ exitCode = 0
  /\ svcConfig = NoService
  /\ imageUUID = <<>>
  /\ upSvc = NoService
  /\ body = NoBody
  /\ posts = <<>>
  /\ phase = "none"
  /\ desired = {}
  /\ elapsed = 0
  /\ fetchOk = FALSE
  /\ service = NilState
  /\ waitRes = [p \in Phases |-> "none"]
  /\ waitSvc = [p \in Phases |-> NilState]
  /\ verify = NoVerify
  /\ via = "none"
  /\ instances = <<>>
  /\ idx = 0
  /\ sweep = "none"
  /\ cfgGets = 0
  /\ polls = NoPolls
  /\ RunnerIdle

RewriteNext ==
  \/ MainGetServiceConfig
  \/ UpgradeGetServiceConfig

RewriteSpec == RewriteInit /\ [][RewriteNext]_vars

\* ------------------------------------------ the verification runner
\* StreamingExternalCmd in detail: the caller, the reader goroutine and the
\* external process.  Output is counted in chunks; a line is one or more
\* chunks, the last of which ("n") carries the newline.  PipeCap is the size
\* of the kernel's pipe buffer and MaxToken the largest line that
\* bufio.Scanner buffers (bufio.MaxScanTokenSize), both in chunks.
Line(n) == [i \in 1..n |-> IF i = n THEN "n" ELSE "c"]

RECURSIVE ScriptsOf(_)
ScriptsOf(k) ==
  IF k = 0 THEN {<<>>}
  ELSE {<<>>} \cup { Line(n) \o rest : n \in 1..MaxLineLen, rest \in ScriptsOf(k - 1) }

\* what a command may write: up to MaxLines lines of up to MaxLineLen chunks
Scripts == ScriptsOf(MaxLines)

RunnerInit ==
  /\ cfg = [Timeout |-> 0, Interval |-> 0, Cmd |-> TRUE, Finish |-> FALSE,
            StartFirst |-> FALSE, BuildTag |-> <<"a">>]
  /\ remote = [image |-> <<"a">>, hasImage |-> TRUE, ports |-> "p1",
               batchSize |-> 1, intervalMillis |-> 1]
  /\ pc = "verify"
  /\ exitCode = 0
  /\ svcConfig = NoService
  /\ imageUUID = <<>>
  /\ upSvc = NoService
  /\ body = NoBody
  /\ posts = <<>>
  /\ phase = "none"
  /\ desired = {}
  /\ elapsed = 0
  /\ fetchOk = FALSE
  /\ service = NilState
  /\ waitRes = [p \in Phases |-> "none"]
  /\ waitSvc = [p \in Phases |-> NilState]
  /\ verify = NoVerify
  /\ via = "none"
  /\ instances = <<>>
  /\ idx = 0
  /\ sweep = "none"
  /\ cfgGets = 0
  /\ polls = NoPolls
  /\ callerPc = "pipe"
  /\ childPc = "none"
  /\ readerPc = "none"
  /\ script \in Scripts
  /\ pipe = <<>>
  /\ pipeClosed = FALSE
  /\ scanBuf = 0
  /\ linesWritten = 0
  /\ linesPrinted = 0
  /\ exitStatus = 0
  /\ runResult = "none"

\* cmd.StdoutPipe() and the go statement that starts the reader
RunnerStdoutPipe ==
  /\ callerPc = "pipe"
  /\ \E ok \in BOOLEAN :
       IF ok
       THEN /\ readerPc' = "scan"
            /\ callerPc' = "start"
            /\ UNCHANGED runResult
       ELSE /\ callerPc' = "returned"
            /\ runResult' = IF CmdError(FALSE, 0) THEN "err" ELSE "nil"
            /\ UNCHANGED readerPc
  /\ UNCHANGED <<progVars, childPc, script, pipe, pipeClosed, scanBuf,
                 linesWritten, linesPrinted, exitStatus>>

\* cmd.Start(): a failed Start closes the pipe's descriptors
RunnerStart ==
  /\ callerPc = "start"
  /\ \E ok \in BOOLEAN :
       IF ok
       THEN /\ childPc' = "running"
            /\ callerPc' = "wait"
            /\ UNCHANGED <<pipeClosed, runResult>>
       ELSE /\ pipeClosed' = TRUE
            /\ callerPc' = "returned"
            /\ runResult' = IF CmdError(FALSE, 0) THEN "err" ELSE "nil"
            /\ UNCHANGED childPc
  /\ UNCHANGED <<progVars, readerPc, script, pipe, scanBuf, linesWritten,
                 linesPrinted, exitStatus>>

\* the process writes a chunk; it blocks while the pipe buffer is full
ChildWrite ==
  /\ childPc = "running"
  /\ script # <<>>
  /\ Len(pipe) < PipeCap
  /\ pipe' = Append(pipe, Head(script))
  /\ script' = Tail(script)
  /\ linesWritten' = IF Head(script) = "n" THEN linesWritten + 1 ELSE linesWritten
  /\ UNCHANGED <<progVars, callerPc, childPc, readerPc, pipeClosed, scanBuf,
                 linesPrinted, exitStatus, runResult>>

\* the process exits when it has written everything
ChildExit ==
  /\ childPc = "running"
  /\ script = <<>>
  /\ childPc' = "exited"
  /\ exitStatus' \in 0..1
  /\ UNCHANGED <<progVars, callerPc, readerPc, script, pipe, pipeClosed,
                 scanBuf, linesWritten, linesPrinted, runResult>>

\* for scanner.Scan() { fmt.Printf(scanner.Text()) }: one read of the pipe.
\* A read of the closed read end fails and ends the loop; so does the end of
\* the output, and a line that outgrows the Scanner's buffer (ErrTooLong).
ReaderScan ==
  /\ readerPc = "scan"
  /\ IF pipeClosed
     THEN /\ readerPc' = "stopped"
          /\ UNCHANGED <<pipe, scanBuf, linesPrinted>>
     ELSE IF pipe # <<>>
     THEN /\ pipe' = Tail(pipe)
          /\ IF Head(pipe) = "n"
             THEN /\ linesPrinted' = linesPrinted + 1
                  /\ scanBuf' = 0
                  /\ UNCHANGED readerPc
             ELSE /\ scanBuf' = scanBuf + 1
                  /\ readerPc' = IF scanBuf + 1 >= MaxToken THEN "stopped" ELSE "scan"
                  /\ UNCHANGED linesPrinted
     ELSE /\ childPc = "exited"
          /\ readerPc' = "stopped"
          /\ UNCHANGED <<pipe, scanBuf, linesPrinted>>
  /\ UNCHANGED <<progVars, callerPc, childPc, script, pipeClosed, linesWritten,
                 exitStatus, runResult>>

\* cmd.Wait(): returns once the process has exited, closes the read end of
\* the pipe and reports the exit status
RunnerWait ==
  /\ callerPc = "wait"
  /\ childPc = "exited"
  /\ pipeClosed' = TRUE
  /\ runResult' = IF CmdError(TRUE, exitStatus) THEN "err" ELSE "nil"
  /\ callerPc' = "returned"
  /\ UNCHANGED <<progVars, childPc, readerPc, script, pipe, scanBuf,
                 linesWritten, linesPrinted, exitStatus>>

RunnerNext ==
  \/ RunnerStdoutPipe
  \/ RunnerStart
  \/ ChildWrite
  \/ ChildExit
  \/ ReaderScan
  \/ RunnerWait

RunnerSpec == RunnerInit /\ [][RunnerNext]_vars

\* ------------------------------------------------ vocabulary of claims
\* the desired-state set of a call: that of its caller, or the one the
\* direct call was given
DesiredStatesOf(p) == IF p = "call" THEN desired ELSE DesiredStates(p)

InWaitFor == pc \in {"wf_fetch", "wf_neterr", "wf_sleep"}

Done == pc = "done"

HasPost(a) == \E i \in 1..Len(posts) : posts[i].act = a

PostCount(a) == Cardinality({ i \in 1..Len(posts) : posts[i].act = a })

\* every POST from position k on is a container start, for Containers that
\* have a start link, in list order, each one after a successful start
StartsFrom(k) ==
  \A i \in k..Len(posts) :
     /\ posts[i].act = "start"
     /\ posts[i].idx \in 1..Len(instances)
     /\ instances[posts[i].idx]
     /\ i > k => (posts[i-1].ok /\ posts[i-1].idx < posts[i].idx)

\* every Container with a start link got a start POST, unless an earlier
\* start POST failed
SweepComplete ==
  \A c \in 1..Len(instances) :
     instances[c] =>
        \/ \E i \in 1..Len(posts) : posts[i].act = "start" /\ posts[i].idx = c
        \/ \E i \in 1..Len(posts) :
              posts[i].act = "start" /\ posts[i].idx < c /\ ~posts[i].ok

\* the sweep ran: the instances document was fetched and decoded
SweepRan == idx >= 1

\* no POST of the run failed, nor the GET of the instances document
NoRequestFailed ==
  /\ \A i \in 1..Len(posts) : posts[i].ok
  /\ (Done /\ waitRes["rollback"] = "ok") => SweepRan

\* ------------------------------------------------------------ scenarios
\* the wait for "upgraded" succeeded, no command is configured, finishing
\* is enabled
ScenarioA ==
  /\ waitRes["upgrade"] = "ok"
  /\ ~cfg.Cmd
  /\ cfg.Finish

\* the wait for "upgraded" timed out
ScenarioB == waitRes["upgrade"] = "timeout"

\* the wait for "upgraded" succeeded and the command exited non-zero
ScenarioC ==
  /\ waitRes["upgrade"] = "ok"
  /\ verify.ran /\ verify.started /\ verify.status # 0

\* finishing is disabled, the wait for "upgraded" succeeded and the
\* command, if one is configured, has passed
ScenarioD ==
  /\ ~cfg.Finish
  /\ waitRes["upgrade"] = "ok"
  /\ cfg.Cmd => (verify.ran /\ ~verify.err)

\* C1 as stated: in scenario A a finished run has POSTed the finish action
\* and exited with status 0 (here even granting that no request failed).
C1_ScenarioA_AsStated ==
  (Done /\ ScenarioA /\ NoRequestFailed) => (HasPost("finish") /\ exitCode = 0)

\* C1 (amended): in scenario A a finished run has POSTed the finish action;
\* it exits 0 exactly when the wait for "active" that FinishUpgrade makes
\* after the POST succeeded, and non-zero when the POST failed, its response
\* did not decode, or that wait timed out.
C1_ScenarioA ==
  (Done /\ ScenarioA) =>
     /\ HasPost("finish")
     /\ PostCount("finish") = 1
     /\ exitCode \in {0, 1}
     /\ exitCode = 0 <=> waitRes["finish"] = "ok"
     /\ waitRes["finish"] # "none" => posts[Len(posts)].ok

C1_Witness ==
  /\ Done /\ ScenarioA
  /\ HasPost("finish")
  /\ exitCode = 0

C4_ScenarioD ==
  ScenarioD =>
     /\ ~HasPost("finish")
     /\ pc \in {"finish", "done"}
     /\ Done => exitCode = 0
     /\ waitRes["finish"] = "none"

C4_Witness ==
  /\ Done /\ ScenarioD
  /\ cfg.Cmd
  /\ exitCode = 0

\* C5: a first fetch without an upgrade action link ends the run at once
\* with a non-zero status: one fetch was made, nothing was POSTed, no wait
\* was started.
C5_NotUpgradeableIsFatal ==
  (svcConfig.present /\ ~svcConfig.upgrade) =>
     /\ Done
     /\ exitCode # 0
     /\ cfgGets = 1
     /\ posts = <<>>
     /\ ~body.sent
     /\ phase = "none"

C5_Witness ==
  /\ Done
  /\ svcConfig.present /\ ~svcConfig.upgrade
  /\ exitCode = 1

\* ------------------------------------------------------------- WaitFor
\* C6: a GET of the WaitFor loop that decodes a Service whose state is in
\* the desired set ends the call in that very step: WaitFor returns that
\* Service with a nil error, so no sleep and no further GET follows the match.
C6_MatchReturnsAtOnce ==
  [][ (pc = "wf_fetch" /\ fetchOk' /\ service' \in desired /\ pc' # pc) =>
         /\ ~InWaitFor'
         /\ waitRes'[phase] = "ok"
         /\ waitSvc'[phase] = service'
         /\ elapsed' <= elapsed + MaxDelay ]_vars

C6_Witness ==
  /\ pc = "returned"
  /\ waitRes["call"] = "ok"
  /\ waitSvc["call"] = "removed"
  /\ WaitExpired(elapsed, cfg.Timeout)

\* C7 as stated: a WaitFor call whose timeout has elapsed without a desired
\* state having been observed returns TimedOut, carrying the Service of the
\* last successful GET, or nil when every GET failed.
C7_TimedOutCarriesLast ==
  (InWaitFor /\ WaitExpired(elapsed, cfg.Timeout))
     ~> (~InWaitFor /\ waitRes[phase] = "timeout" /\ waitSvc[phase] = service)

\* C8: a failed GET of the WaitFor loop only leads to the next GET: the
\* loop goes from the failed GET to its error branch and from there to the
\* GET again, without sleeping, without testing the timeout and without
\* returning.
C8_FailedFetchRetriesAtOnce ==
  [][ /\ (pc = "wf_fetch" /\ ~fetchOk' /\ pc' # pc) =>
            /\ pc' = "wf_neterr"
            /\ UNCHANGED <<service, waitRes, waitSvc, exitCode>>
      /\ (pc = "wf_neterr" /\ pc' # pc) =>
            /\ pc' = "wf_fetch"
            /\ UNCHANGED <<elapsed, service, waitRes, waitSvc, exitCode>> ]_vars

C8_Witness ==
  /\ pc = "wf_neterr"
  /\ service # NilState
  /\ WaitExpired(elapsed, cfg.Timeout)

\* C9 as stated: once the timeout of a WaitFor call has elapsed the call
\* eventually returns, whatever the GETs do.
C9_ReturnsOnceTimeoutElapsed ==
  (InWaitFor /\ WaitExpired(elapsed, cfg.Timeout)) ~> ~InWaitFor

\* -------------------------------------------------------- UpgradeRequest
\* C10 as stated: the launch config of the POSTed UpgradeRequest carries the
\* image reference rewritten to the build tag.
C10_PostedImageIsRewritten ==
  body.sent => body.image = RewriteImage(svcConfig.image, cfg.BuildTag)

\* C11: apart from the image reference, the UpgradeRequest that is POSTed
\* carries what main fetched and what the operator set: the other launch
\* configuration key has the fetched value, batch size and interval are the
\* upgrade strategy values of the fetched Service, and the start-first flag
\* is cfg.RancherStartServiceFirst.
C11_RequestKeepsTheRest ==
  body.sent =>
     /\ body.ports = svcConfig.ports
     /\ body.batchSize = svcConfig.batchSize
     /\ body.intervalMillis = svcConfig.intervalMillis
     /\ body.startFirst = cfg.StartFirst

\* a request was POSTed for a Service that main fetched with values other
\* than the ones the control plane holds by the time of the POST
C11_Witness ==
  /\ body.sent
  /\ body.ports = "p2" /\ body.batchSize = 2 /\ body.intervalMillis = 2
  /\ body.startFirst
  /\ remote.ports = "p1" /\ remote.batchSize = 1

\* ------------------------------------------------------- action targets
\* C12 as stated: every action POSTed (upgrade, cancel, rollback, finish,
\* container start) targets a URL taken from an action link of a fetched
\* Service or Container, never one the program put together itself.
C12_EveryTargetIsALink ==
  \A i \in 1..Len(posts) : posts[i].url = "link"

\* C12 (amended): the upgrade POST targets the upgrade link of the Service
\* fetched last before it (the one Upgrade fetches), which is present, and a
\* start POST targets the start link of a Container of the fetched
\* instances list, which is present; the cancel, rollback and finish POSTs
\* target a URL built from the service URL and an "?action=" suffix.
C12_ActionTargets ==
  \A i \in 1..Len(posts) :
     /\ posts[i].act \in {"upgrade", "start"} <=> posts[i].url = "link"
     /\ posts[i].act \in {"cancel", "rollback", "finish"} <=> posts[i].url = "built"
     /\ posts[i].act = "upgrade" => (upSvc.present /\ upSvc.upgrade)
     /\ posts[i].act = "start" =>
           (posts[i].idx \in 1..Len(instances) /\ instances[posts[i].idx])

\* a run that POSTed upgrade, cancel, rollback and a container start
C12_Witness ==
  /\ Done
  /\ HasPost("upgrade") /\ HasPost("cancel") /\ HasPost("rollback")
  /\ HasPost("start")

\* a run that POSTed upgrade and finish
C12_WitnessFinish ==
  /\ Done
  /\ HasPost("upgrade") /\ HasPost("finish")

\* ------------------------------------------------------------- recovery
\* main calls Cancel: the cancel POST is the first thing Cancel does
MainCalledCancel == HasPost("cancel")

\* main calls Rollback: it does so exactly when the command failed
MainCalledRollback == verify.err

\* C13: a run enters recovery through at most one of Cancel and Rollback;
\* when both the cancel and the rollback action were POSTed, the rollback is
\* the one Cancel itself makes, right after its own successful POST and wait,
\* in a run that never ran the verification.
C13_OneRecoveryEntryPoint ==
  /\ ~(MainCalledCancel /\ MainCalledRollback)
  /\ MainCalledCancel => (waitRes["upgrade"] = "timeout" /\ ~verify.ran)
  /\ MainCalledRollback => (waitRes["upgrade"] = "ok" /\ ~HasPost("cancel"))
  /\ HasPost("rollback") => (via \in {"cancel", "verify"} /\
                             (via = "cancel" <=> MainCalledCancel))
  /\ (HasPost("cancel") /\ HasPost("rollback")) =>
        /\ waitRes["cancel"] = "ok"
        /\ \E i \in 1..(Len(posts) - 1) :
              /\ posts[i].act = "cancel" /\ posts[i].ok
              /\ posts[i+1].act = "rollback"
  /\ PostCount("cancel") <= 1
  /\ PostCount("rollback") <= 1

\* a run in which Cancel delegated to Rollback
C13_Witness ==
  /\ Done
  /\ MainCalledCancel
  /\ HasPost("rollback")
  /\ via = "cancel"

\* a run in which main called Rollback
C13_WitnessRollback ==
  /\ Done
  /\ MainCalledRollback
  /\ HasPost("rollback")
  /\ via = "verify"

\* --------------------------------------------------------------- finish
\* C14 as stated: once the finish action has been POSTed the run never
\* polls again: it is in no WaitFor call.
C14_NoPollingAfterFinish ==
  HasPost("finish") => ~InWaitFor

\* C14 (amended): once the finish action has been POSTed no other action is
\* POSTed and no Service is fetched except by the one WaitFor call for
\* "active" that FinishUpgrade makes itself when the POST succeeded and its
\* response decoded; the run ends when that call returns.
C14_OnlyTheFinishWaitFollows ==
  HasPost("finish") =>
     /\ PostCount("finish") = 1
     /\ posts[Len(posts)].act = "finish"
     /\ InWaitFor \/ Done
     /\ InWaitFor => (phase = "finish" /\ desired = {"active"})
     /\ phase = "finish" <=> posts[Len(posts)].ok
     /\ waitRes["finish"] # "none" => Done
     /\ cfgGets = 2
     /\ waitRes["cancel"] = "none" /\ waitRes["rollback"] = "none"
     /\ sweep = "none"

\* the wait of FinishUpgrade has fetched the Service after the finish POST
C14_Witness ==
  /\ HasPost("finish")
  /\ pc = "wf_sleep"
  /\ phase = "finish"
  /\ service = "finishing-upgrade"

\* C15: FinishUpgrade returns without error only after a fetch of its own
\* wait, made after the finish POST, observed "active", and the run then
\* exits 0; when that wait times out FinishUpgrade returns the error and
\* the run exits non-zero.
C15_FinishReturnsAfterActive ==
  /\ waitRes["finish"] = "ok" =>
        /\ waitSvc["finish"] = "active"
        /\ HasPost("finish") /\ posts[Len(posts)].ok
        /\ Done /\ exitCode = 0
  /\ waitRes["finish"] = "timeout" =>
        /\ waitSvc["finish"] # "active"
        /\ Done /\ exitCode # 0
  /\ (Done /\ HasPost("finish") /\ exitCode = 0) => waitRes["finish"] = "ok"
  /\ (phase = "finish" /\ InWaitFor) =>
        (waitRes["finish"] = "none" /\ service # "active")

\* FinishUpgrade returned the Service that a late fetch saw active
C15_Witness ==
  /\ Done
  /\ waitRes["finish"] = "ok"
  /\ cfg.Cmd
  /\ WaitExpired(elapsed, cfg.Timeout)
  /\ exitCode = 0

\* the wait of FinishUpgrade timed out
C15_WitnessTimedOut ==
  /\ Done
  /\ waitRes["finish"] = "timeout"
  /\ waitSvc["finish"] = "finishing-upgrade"
  /\ exitCode = 1

\* --------------------------------------------------------------- Cancel
\* the cancel POST of the run went through
CancelPosted ==
  \E i \in 1..Len(posts) : posts[i].act = "cancel" /\ posts[i].ok

C16_WitnessNoRollback ==
  /\ Done
  /\ CancelPosted
  /\ waitRes["cancel"] = "timeout"
  /\ ~HasPost("rollback")

\* C17 as stated, its first half: when every fetch of the wait inside Cancel
\* has failed through the timeout, that wait returns (with no Service, so
\* that Cancel can return its "no service config" error), unless a fetch
\* succeeds after all.
C17_CancelWaitReturnsWithoutService ==
  (phase = "cancel" /\ InWaitFor /\ service = NilState
      /\ WaitExpired(elapsed, cfg.Timeout))
     ~> (~InWaitFor \/ service # NilState)

\* ---------------------------------------------------------------- sweep
\* the rollback POST of the run went through
RollbackPosted ==
  \E i \in 1..Len(posts) : posts[i].act = "rollback" /\ posts[i].ok

\* startContainers has returned
SweepReturned == sweep \in {"geterr", "ok", "starterr"}

\* the Containers of the fetched instances list that have a start link
StartableContainers == { c \in 1..Len(instances) : instances[c] }

\* the Containers that a start action was POSTed for
StartedContainers ==
  { posts[i].idx : i \in { k \in 1..Len(posts) : posts[k].act = "start" } }

C18_WitnessViaCancel ==
  /\ Done
  /\ via = "cancel"
  /\ sweep = "ok"
  /\ PostCount("start") = 2

\* C19 as stated: a sweep that has gone through the instances list has
\* attempted a start action for every Container that has a start link,
\* whatever the other Containers' start requests did.
C19_EveryStartableIsStarted ==
  sweep \in {"ok", "starterr"} => StartableContainers \subseteq StartedContainers

\* C20: a Container without a start link gets no request and does not make
\* the sweep fail: start actions go to Containers with a start link only,
\* the loop returns an error only after a start POST that failed, and a
\* sweep over Containers none of which has a start link returns nil having
\* POSTed nothing.
C20_NoLinkNoRequest ==
  /\ StartedContainers \subseteq StartableContainers
  /\ sweep = "starterr" <=>
        \E i \in 1..Len(posts) : posts[i].act = "start" /\ ~posts[i].ok
  /\ (sweep \in {"running", "ok", "starterr"} /\ StartableContainers = {}) =>
        /\ ~HasPost("start")
        /\ sweep # "starterr"
        /\ Done => sweep = "ok"
  /\ sweep = "ok" =>
        /\ Done
        /\ StartedContainers = StartableContainers
        /\ \A i \in 1..Len(posts) : posts[i].act = "start" => posts[i].ok

\* a sweep over two Containers without a start link returned nil
C20_Witness ==
  /\ Done
  /\ Len(instances) >= 2
  /\ StartableContainers = {}
  /\ sweep = "ok"
  /\ ~HasPost("start")

\* a sweep skipped a Container without a start link and started the next
C20_WitnessMixed ==
  /\ Done
  /\ Len(instances) >= 2
  /\ ~instances[1] /\ instances[2]
  /\ sweep = "ok"
  /\ PostCount("start") = 1

\* ---------------------------------------------------------- orchestration
\* the run failed before finishing: the wait for "upgraded" timed out or
\* the command failed
UpgradeFailed == waitRes["upgrade"] = "timeout" \/ verify.err

\* C21: in a run in which the wait for "upgraded" timed out or the command
\* failed, the finish action is never POSTed, FinishUpgrade is not entered,
\* the verification is not run after a time out, and once the recovery has
\* returned the run has ended with a non-zero status.
C21_NoFinishAfterFailure ==
  UpgradeFailed =>
     /\ ~HasPost("finish")
     /\ waitRes["finish"] = "none"
     /\ phase # "finish"
     /\ pc \notin {"verify", "finish", "upgrade_post", "upgrade_get", "main_get"}
     /\ waitRes["upgrade"] = "timeout" => ~verify.ran
     /\ InWaitFor => phase \in {"cancel", "rollback"}
     /\ (~InWaitFor /\ pc \notin {"cancel_post", "rollback_post",
                                     "get_instances", "start_loop"}) =>
           (Done /\ exitCode # 0)

\* a run with finishing enabled ended after a failed command and a rollback
C21_Witness ==
  /\ Done
  /\ cfg.Finish
  /\ verify.err
  /\ HasPost("rollback")
  /\ sweep = "ok"

\* a run with finishing enabled ended after a timed-out upgrade and a cancel
C21_WitnessTimedOut ==
  /\ Done
  /\ cfg.Finish /\ cfg.Cmd
  /\ waitRes["upgrade"] = "timeout"
  /\ HasPost("cancel")

\* the run succeeded: the Service was upgraded, the command, if any, passed
\* and the upgrade, if it is to be finished, was finished
Succeeded ==
  /\ waitRes["upgrade"] = "ok"
  /\ cfg.Cmd => (verify.ran /\ ~verify.err)
  /\ cfg.Finish => waitRes["finish"] = "ok"

\* C22: a finished run has status 0 exactly when it succeeded; it has a
\* non-zero status after a failed precondition, a wait that timed out, a
\* failed command, and a cancel or rollback that returned an error.
C22_ExitStatus ==
  Done =>
     /\ exitCode = 0 <=> Succeeded
     /\ exitCode \in {0, 1, 2}
     /\ (svcConfig.present /\ NotUpgradeable(svcConfig)) => exitCode # 0
     /\ (\E p \in Phases : waitRes[p] = "timeout") => exitCode # 0
     /\ verify.err => exitCode # 0
     /\ (\E i \in 1..Len(posts) : ~posts[i].ok) => exitCode # 0
     /\ sweep \in {"geterr", "starterr"} => exitCode # 0
     /\ (HasPost("cancel") \/ HasPost("rollback")) => exitCode # 0

\* a run that succeeded through the command and the finish step
C22_Witness ==
  /\ Done
  /\ Succeeded
  /\ cfg.Cmd /\ cfg.Finish
  /\ exitCode = 0

\* a run whose rollback went through and which still ends non-zero
C22_WitnessRolledBack ==
  /\ Done
  /\ verify.err
  /\ sweep = "ok"
  /\ \A i \in 1..Len(posts) : posts[i].ok
  /\ exitCode = 1

\* C23: the runner reports success exactly when the process was started
\* and exited with status zero, and a run invokes the command at most once:
\* a failed command is not tried again.
C23_VerificationOnceByStatus ==
  /\ verify.runs <= 1
  /\ verify.ran <=> verify.runs = 1
  /\ verify.ran => (~verify.err <=> (verify.started /\ verify.status = 0))
  /\ ~verify.ran => ~verify.err
  /\ verify.err => pc # "verify"

\* the command exited non-zero and the run went on to roll back
C23_Witness ==
  /\ verify.ran
  /\ verify.started /\ verify.status = 1
  /\ verify.err
  /\ pc = "rollback_post"

\* the command exited zero
C23_WitnessPassed ==
  /\ verify.ran
  /\ verify.started /\ verify.status = 0
  /\ ~verify.err
  /\ pc = "finish"

\* C26: the command is run exactly when one is configured and the wait for
\* "upgraded" succeeded; without a command the run goes from the successful
\* wait straight to the finish step.
C26_VerificationIffConfigured ==
  /\ pc = "verify" => (cfg.Cmd /\ waitRes["upgrade"] = "ok" /\ ~verify.ran)
  /\ verify.ran => (cfg.Cmd /\ waitRes["upgrade"] = "ok")
  /\ (cfg.Cmd /\ waitRes["upgrade"] = "ok") => (verify.ran \/ pc = "verify")
  /\ (~cfg.Cmd /\ waitRes["upgrade"] = "ok") =>
        /\ ~verify.ran
        /\ pc = "finish" \/ phase = "finish" \/ Done
        /\ ~HasPost("cancel") /\ ~HasPost("rollback")
  /\ pc = "finish" => (waitRes["upgrade"] = "ok" /\ (cfg.Cmd => verify.ran))

\* without a command the run is at the finish step right after the wait
C26_Witness ==
  /\ ~cfg.Cmd
  /\ waitRes["upgrade"] = "ok"
  /\ pc = "finish"
  /\ ~verify.ran

\* with a command the run is at the finish step after the command passed
C26_WitnessRan ==
  /\ cfg.Cmd
  /\ verify.ran /\ ~verify.err
  /\ pc = "finish"

\* C27: a run POSTs each of the upgrade, cancel, rollback and finish
\* actions at most once, and a POST that failed is the last request of the
\* run: nothing is issued again after a failure.
C27_EachActionAtMostOnce ==
  /\ \A a \in {"upgrade", "cancel", "rollback", "finish"} : PostCount(a) <= 1
  /\ \A i \in 1..Len(posts) : ~posts[i].ok => (i = Len(posts) /\ Done)
  /\ \A p \in {"cancel", "rollback", "finish"} :
        waitRes[p] = "timeout" => (Done /\ posts[Len(posts)].act = p)

\* a run ended on a rollback POST that failed, after one cancel
C27_Witness ==
  /\ Done
  /\ PostCount("upgrade") = 1 /\ PostCount("cancel") = 1
  /\ PostCount("rollback") = 1
  /\ ~posts[Len(posts)].ok
  /\ posts[Len(posts)].act = "rollback"

\* a run ended on a rollback wait that timed out
C27_WitnessTimedOut ==
  /\ Done
  /\ waitRes["rollback"] = "timeout"
  /\ PostCount("rollback") = 1

\* C28: every WaitFor call starts its own clock: a call is entered with no
\* time elapsed, whatever an earlier wait of the run has used up, and while
\* the call runs its elapsed time never goes back.
C28_TimeoutReArmed ==
  [][ /\ (pc' = "wf_fetch" /\ ~InWaitFor) => (elapsed' = 0 /\ phase' # phase)
      /\ (InWaitFor /\ InWaitFor') => (elapsed' >= elapsed /\ phase' = phase)
      /\ phase' # phase => (elapsed' = 0 /\ pc' = "wf_fetch") ]_vars

\* the wait of Rollback starts afresh after two waits that ran out of time
\* or used it up
C28_Witness ==
  /\ phase = "rollback"
  /\ pc = "wf_fetch"
  /\ elapsed = 0
  /\ cfg.Timeout >= 1
  /\ waitRes["upgrade"] = "timeout"
  /\ waitRes["cancel"] = "ok"

\* ------------------------------------------------ verification runner
\* C24 as stated: when StreamingExternalCmd returns after the process has
\* exited, the reader goroutine has printed every line the process wrote.
C24_OutputDrainedBeforeReturn ==
  (callerPc = "returned" /\ childPc = "exited") => linesPrinted = linesWritten

\* C25 as stated: the process is never left blocked on a full pipe buffer
\* with nobody reading: while it has output to write and the buffer is
\* full, the reader goroutine is still scanning.
C25_ChildNeverStuck ==
  (childPc = "running" /\ script # <<>> /\ Len(pipe) = PipeCap) =>
     readerPc = "scan"

\* -------------------------------------------------------------- rewrite
\* main has rewritten the image reference it fetched
Rewritten == svcConfig.present /\ pc \in {"upgrade_get", "upgrade_post"}

\* the position of the last colon of s, 0 when there is none
LastColon(s) ==
  IF \E i \in 1..Len(s) : s[i] = ":"
  THEN CHOOSE i \in 1..Len(s) : s[i] = ":" /\ \A j \in (i+1)..Len(s) : s[j] # ":"
  ELSE 0

\* C29 as stated: rewriting the rewritten image reference once more with
\* the same build tag leaves it as it is.
C29_RewriteIdempotent ==
  Rewritten => RewriteImage(imageUUID, cfg.BuildTag) = imageUUID

\* C30 as stated: an image reference of the form repository ":" oldTag is
\* rewritten to repository ":" tag, whatever oldTag consists of (here for
\* the build tags made of lower-case letters and digits only).
C30_RewriteReplacesAnyTag ==
  LET s == svcConfig.image
      k == LastColon(s)
      t == cfg.BuildTag
  IN  (Rewritten /\ k > 1 /\ k < Len(s) /\ t # <<>>
         /\ \A j \in 1..Len(t) : IsTagChar(t[j])) =>
        imageUUID = SubSeq(s, 1, k) \o t

\* ------------------------------------------------------ failed fetches
\* main's own GetServiceConfig returned an error
InitialFetchFailed == cfgGets >= 1 /\ ~svcConfig.present

\* no WaitFor call was entered
NoPolling ==
  /\ phase = "none"
  /\ \A p \in Phases : waitRes[p] = "none"

\* C35: if main's initial fetch of the Service fails, the run is over with
\* a failure status and no upgrade, cancel, rollback, finish or start
\* request was sent.
C35_InitialFetchFailureIsFatal ==
  InitialFetchFailed =>
     /\ pc = "done"
     /\ exitCode # 0
     /\ posts = <<>>
     /\ sweep = "none"
     /\ NoPolling

C35_Witness ==
  /\ InitialFetchFailed
  /\ pc = "done"
  /\ cfgGets = 1

\* Upgrade returned an error: its fetch failed, or its POST did
UpgradeReturnedError ==
  \/ cfgGets >= 2 /\ ~upSvc.present
  \/ \E i \in 1..Len(posts) : posts[i].act = "upgrade" /\ ~posts[i].ok

\* C36: if Upgrade returns an error, the run is over as failed at once:
\* no WaitFor call is made and neither cancel nor rollback is POSTed.
C36_UpgradeErrorIsFatal ==
  UpgradeReturnedError =>
     /\ pc = "done"
     /\ exitCode = 1
     /\ NoPolling
     /\ ~HasPost("cancel")
     /\ ~HasPost("rollback")
     /\ ~verify.ran

\* the fetch inside Upgrade failed
C36_Witness ==
  /\ cfgGets = 2
  /\ svcConfig.present
  /\ ~upSvc.present
  /\ pc = "done"

\* the upgrade POST failed
C36_WitnessPostFailed ==
  /\ Len(posts) = 1
  /\ posts[1].act = "upgrade"
  /\ ~posts[1].ok
  /\ pc = "done"

\* ------------------------------------------------- starts after rollback
\* the rollback POST failed
RollbackPostFailed ==
  \E i \in 1..Len(posts) : posts[i].act = "rollback" /\ ~posts[i].ok

C37_WitnessPostFailed ==
  /\ RollbackPostFailed
  /\ pc = "done"

\* the wait for active timed out
C37_WitnessTimedOut ==
  /\ waitRes["rollback"] = "timeout"
  /\ pc = "done"

\* ------------------------------------------------ the snapshot of Upgrade
\* C31: whenever the upgrade request is POSTed, the Service that Upgrade
\* fetched, whose upgrade link is the target, had that link, whatever the
\* control plane did between main's fetch and the one of Upgrade; when that
\* Service has no upgrade link nothing is POSTed and the run fails.
C31_UpgradeLinkPresentWhenPosted ==
  /\ HasPost("upgrade") => (upSvc.present /\ upSvc.upgrade)
  /\ (upSvc.present /\ ~upSvc.upgrade) =>
        /\ posts = <<>>
        /\ pc \in {"upgrade_post", "done"}
        /\ pc = "done" => exitCode = 1

\* the request was POSTed after the control plane replaced the Service
C31_Witness ==
  /\ HasPost("upgrade")
  /\ upSvc.upgrade
  /\ svcConfig.ports # remote.ports

\* the upgrade link was gone by the time of the fetch of Upgrade
C31_WitnessLinkGone ==
  /\ svcConfig.upgrade
  /\ upSvc.present
  /\ ~upSvc.upgrade
  /\ pc = "done"

\* ------------------------------------------------ what WaitFor returns
\* C32: a WaitFor call that has returned has returned a Service, never nil;
\* its error is nil exactly when the state of that Service is in the desired
\* set; and with the timeout error the Service is the one decoded by the GET
\* of the last loop iteration, whose state is outside the desired set.
C32_WaitForReturnsAService ==
  pc = "returned" =>
     /\ waitRes["call"] \in {"ok", "timeout"}
     /\ waitSvc["call"] # NilState
     /\ waitSvc["call"] \in ServiceStates
     /\ (waitRes["call"] = "ok") <=> (waitSvc["call"] \in desired)
     /\ waitRes["call"] = "timeout" =>
           /\ fetchOk
           /\ waitSvc["call"] = service
           /\ service \notin desired

\* the call timed out and returned the Service of its last GET
C32_Witness ==
  /\ pc = "returned"
  /\ waitRes["call"] = "timeout"
  /\ waitSvc["call"] = "upgrading"
  /\ desired = {"upgraded"}

\* the call returned a Service in a desired state
C32_WitnessMatched ==
  /\ pc = "returned"
  /\ waitRes["call"] = "ok"
  /\ waitSvc["call"] = "active"
  /\ desired = {"upgraded", "canceled-upgrade", "active"}

\* ------------------------------------------------ match before timeout
\* C33: WaitFor tests the match before the timeout.  The step that returns
\* the timeout error is the sleep that follows a successful GET of a state
\* outside the desired set, so a successful GET precedes every timeout, also
\* with a timeout of 0; and a GET that decodes a desired state returns
\* success although the time elapsed by then exceeds the timeout.
C33_MatchBeforeTimeout ==
  [][ /\ (waitRes'[phase] = "timeout" /\ waitRes[phase] # "timeout") =>
            /\ pc = "wf_sleep"
            /\ fetchOk
            /\ service \in ServiceStates \ desired
      /\ (pc = "wf_fetch" /\ fetchOk' /\ service' \in desired
             /\ elapsed' > cfg.Timeout) =>
            waitRes'[phase] = "ok" ]_vars

\* a timeout of 0: the call timed out after one successful GET
C33_Witness ==
  /\ pc = "returned"
  /\ cfg.Timeout = 0
  /\ waitRes["call"] = "timeout"
  /\ fetchOk

\* a match after the timeout had passed
C33_WitnessLateMatch ==
  /\ pc = "returned"
  /\ cfg.Timeout = 0
  /\ elapsed > cfg.Timeout
  /\ waitRes["call"] = "ok"
  /\ waitSvc["call"] \in desired

\* ------------------------------------------------------ number of polls
\* C34: with a check interval I > 0 and a timeout T, a WaitFor call whose
\* GETs were all answered at once, without error and with a state outside
\* the desired set returns the timeout error after exactly floor(T/I) + 1
\* GETs and as many sleeps: the comparison is strict, an elapsed time equal
\* to T is not a timeout.
C34_PollCount ==
  (pc = "returned" /\ waitRes["call"] = "timeout" /\ cfg.Interval > 0
     /\ polls.ideal) =>
     /\ polls.fetches = (cfg.Timeout \div cfg.Interval) + 1
     /\ polls.sleeps = (cfg.Timeout \div cfg.Interval) + 1
     /\ elapsed > cfg.Timeout

\* the interval divides the timeout: the sleep that brings the elapsed time
\* to the timeout is followed by one more GET and one more sleep
C34_Witness ==
  /\ pc = "returned"
  /\ waitRes["call"] = "timeout"
  /\ polls.ideal
  /\ cfg.Timeout = 4
  /\ cfg.Interval = 2
  /\ polls.fetches = 3
  /\ polls.sleeps = 3

\* the interval does not divide the timeout
C34_WitnessRoundedDown ==
  /\ pc = "returned"
  /\ waitRes["call"] = "timeout"
  /\ polls.ideal
  /\ cfg.Timeout = 3
  /\ cfg.Interval = 2
  /\ polls.fetches = 2

\* ---------------------------------------------------------- termination
\* the WaitFor calls that the run has entered so far
PhasesEntered ==
  { p \in Phases : waitRes[p] # "none" \/ (InWaitFor /\ phase = p) }

\* C38: when every GET of a WaitFor loop eventually succeeds, time moves on
\* and the verification command exits, the run terminates; and on its way it
\* makes at most three WaitFor calls: the upgrade wait, followed by the
\* cancel wait and then the rollback wait, or by the rollback wait, or by
\* the finish wait.
C38_RunTerminates ==
  /\ <>(pc = "done")
  /\ [](PhasesEntered \in { {}, {"upgrade"}, {"upgrade", "cancel"},
                            {"upgrade", "cancel", "rollback"},
                            {"upgrade", "rollback"}, {"upgrade", "finish"} })

\* a run over after three WaitFor calls, the last of which timed out
C38_Witness ==
  /\ pc = "done"
  /\ PhasesEntered = {"upgrade", "cancel", "rollback"}
  /\ waitRes["rollback"] = "timeout"

====
